---- MODULE Spec2Model ----
(***************************************************************************)
(* A model of the auto-ban pipeline of bot.py: the three persisted         *)
(* documents and their in-memory copies (auto_ban_config, authorized_data, *)
(* ban_statistics), the on_message / auto_ban_user coroutine with its      *)
(* suspension points (message.delete, user.send, guild.ban,                *)
(* log_channel.send), on_ready / load_data and the admin commands.         *)
(*                                                                         *)
(* Representation:                                                         *)
(*  - a Python dict whose key order matters (bans_by_type, bans_by_user)   *)
(*    is a sequence of <<key, value>> pairs in insertion order;            *)
(*  - auto_ban_config and authorized_data are functions from keys to       *)
(*    values; the empty dict {} is the function with the empty domain;     *)
(*  - None (log_channel) is 0: channel ids are positive and the code only  *)
(*    tests the value for truth;                                           *)
(*  - a file name is a sequence of one-character strings;                  *)
(*  - str(id) is ToString(id).                                             *)
(***************************************************************************)
EXTENDS Integers, Sequences, FiniteSets, TLC

VARIABLES
    auto_ban_config,    \* bot.py:36  the in-memory configuration dict
    authorized_data,    \* bot.py:35  guild id (str) -> [users, roles]
    ban_statistics,     \* bot.py:37  [total_bans, bans_by_type, bans_by_user]
    file_config,        \* auto_ban_config.json  [kind, doc]
    file_authorized,    \* authorized.json       [kind, doc]
    file_statistics,    \* ban_statistics.json   [kind, doc]
    passes,             \* the on_message coroutines dispatched so far
    response,           \* the last reply sent with interaction.response
    cl_msg,             \* classifier harness: the message being classified
    cl_out,             \* classifier harness: content_detected
    cl_pc               \* classifier harness: "start" | "done"

vars == <<auto_ban_config, authorized_data, ban_statistics, file_config,
          file_authorized, file_statistics, passes, response, cl_msg, cl_out, cl_pc>>

pipelineVars == <<auto_ban_config, authorized_data, ban_statistics, file_config,
                  file_authorized, file_statistics, passes, response>>

classifierVars == <<cl_msg, cl_out, cl_pc>>

---------------------------------------------------------------------------
(* Bounds *)

\* messages dispatched in one behaviour
MaxPasses == 2
\* attachments of a message given to the classifier harness
MaxAtt == 2
\* embeds of a message given to the classifier harness
MaxEmb == 2

---------------------------------------------------------------------------
(* Sequences, dicts *)

Range(s) == {s[i] : i \in DOMAIN s}

SeqsUpTo(S, n) == UNION {[1..k -> S] : k \in 0..n}

\* d.get(k, default) on an insertion-ordered dict
DictGet(d, k, default) ==
    IF \E i \in DOMAIN d : d[i][1] = k
    THEN (CHOOSE p \in Range(d) : p[1] = k)[2]
    ELSE default

\* d[k] = v : an existing key keeps its position, a new key goes last
DictSet(d, k, v) ==
    IF \E i \in DOMAIN d : d[i][1] = k
    THEN [i \in DOMAIN d |-> IF d[i][1] = k THEN <<k, v>> ELSE d[i]]
    ELSE Append(d, <<k, v>>)

DictKeys(d) == {d[i][1] : i \in DOMAIN d}

\* cfg.get(k, default) on a dict modelled as a function
CfgGet(cfg, k, default) == IF k \in DOMAIN cfg THEN cfg[k] ELSE default

\* cfg[k] = v
CfgSet(cfg, k, v) == [x \in (DOMAIN cfg) \cup {k} |-> IF x = k THEN v ELSE cfg[x]]

EmptyDict == <<>>

---------------------------------------------------------------------------
(* File names: str.lower() and str.endswith() *)

UpperLetters == <<"A", "B", "C", "D", "E", "F", "G", "H", "I", "J", "K", "L", "M",
                  "N", "O", "P", "Q", "R", "S", "T", "U", "V", "W", "X", "Y", "Z">>

LowerLetters == <<"a", "b", "c", "d", "e", "f", "g", "h", "i", "j", "k", "l", "m",
                  "n", "o", "p", "q", "r", "s", "t", "u", "v", "w", "x", "y", "z">>

LowerChar(c) ==
    IF \E i \in DOMAIN UpperLetters : UpperLetters[i] = c
    THEN LowerLetters[CHOOSE i \in DOMAIN UpperLetters : UpperLetters[i] = c]
    ELSE c

\* filename.lower()
Lower(name) == [i \in DOMAIN name |-> LowerChar(name[i])]

\* name.endswith(suffix)
EndsWith(name, suffix) ==
    /\ Len(suffix) <= Len(name)
    /\ SubSeq(name, Len(name) - Len(suffix) + 1, Len(name)) = suffix

\* name.endswith((s1, s2, ...))
EndsWithAny(name, suffixes) == \E s \in suffixes : EndsWith(name, s)

ImageExts == { <<".", "p", "n", "g">>, <<".", "j", "p", "g">>,
               <<".", "j", "p", "e", "g">>, <<".", "w", "e", "b", "p">>,
               <<".", "b", "m", "p">> }

GifExt == <<".", "g", "i", "f">>

VideoExts == { <<".", "m", "p", "4">>, <<".", "m", "o", "v">>, <<".", "a", "v", "i">>,
               <<".", "m", "k", "v">>, <<".", "w", "e", "b", "m">>,
               <<".", "f", "l", "v">> }

---------------------------------------------------------------------------
(* on_message, lines 291-314: the classification of a message *)

AppendIfAbsent(detected, tag) ==
    IF tag \in Range(detected) THEN detected ELSE Append(detected, tag)

\* one iteration of the attachment loop, lines 295-307
AttachmentStep(detected, attachment) ==
    LET filename == Lower(attachment) IN
    IF EndsWithAny(filename, ImageExts) THEN AppendIfAbsent(detected, "image")
    ELSE IF EndsWith(filename, GifExt) THEN AppendIfAbsent(detected, "gif")
    ELSE IF EndsWithAny(filename, VideoExts) THEN AppendIfAbsent(detected, "video")
    ELSE IF "file" \notin Range(detected) /\ detected = <<>>
         THEN Append(detected, "file")
         ELSE detected

\* one iteration of the embed loop, lines 311-314
EmbedStep(detected, embed) ==
    IF embed.image \/ embed.thumbnail
    THEN IF "image" \notin Range(detected)
         THEN Append(detected, "embed_image")
         ELSE detected
    ELSE detected

RECURSIVE AttachmentLoop(_, _)
AttachmentLoop(detected, attachments) ==
    IF attachments = <<>> THEN detected
    ELSE AttachmentLoop(AttachmentStep(detected, Head(attachments)), Tail(attachments))

RECURSIVE EmbedLoop(_, _)
EmbedLoop(detected, embeds) ==
    IF embeds = <<>> THEN detected
    ELSE EmbedLoop(EmbedStep(detected, Head(embeds)), Tail(embeds))

\* content_detected after lines 291-314
ContentDetected(attachments, embeds) ==
    EmbedLoop(AttachmentLoop(<<>>, attachments), embeds)

---------------------------------------------------------------------------
(* The classifier harness: classification applied to bounded messages *)

PicPng   == <<"p", "i", "c", ".", "p", "n", "g">>
PicPNG   == <<"P", "I", "C", ".", "P", "N", "G">>
AnimGif  == <<"a", ".", "g", "i", "f">>
MovieMp4 == <<"m", "o", "v", "i", "e", ".", "m", "p", "4">>
NotesTxt == <<"n", "o", "t", "e", "s", ".", "t", "x", "t">>
RunExe   == <<"r", "u", "n", ".", "e", "x", "e">>
BarePng  == <<"p", "n", "g">>

FileNames == {PicPng, PicPNG, AnimGif, MovieMp4, NotesTxt, RunExe, BarePng}

EmbedKinds == { [image |-> TRUE,  thumbnail |-> FALSE],
                [image |-> FALSE, thumbnail |-> TRUE],
                [image |-> FALSE, thumbnail |-> FALSE] }

ClassifierInputs ==
    { [attachments |-> a, embeds |-> e] :
        a \in SeqsUpTo(FileNames, MaxAtt), e \in SeqsUpTo(EmbedKinds, MaxEmb) }

Classify ==
    /\ cl_pc = "start"
    /\ cl_out' = ContentDetected(cl_msg.attachments, cl_msg.embeds)
    /\ cl_pc' = "done"
    /\ UNCHANGED <<cl_msg, pipelineVars>>

---------------------------------------------------------------------------
(* The platform objects the handlers read *)

\* bot.user
BotUserId == 5
\* interaction.guild_id / message.guild.id of the one guild modelled
GuildId == 100
\* message.guild of a direct message (None)
NoGuild == 0
\* the channel given to set_log_channel
LogChannelId == 29
\* log_channel = None
NoChannel == 0

Member1 == [id |-> 1, bot |-> FALSE, administrator |-> FALSE, roles |-> {}]
Member2 == [id |-> 2, bot |-> FALSE, administrator |-> FALSE, roles |-> {11}]
Admin3  == [id |-> 3, bot |-> FALSE, administrator |-> TRUE,  roles |-> {}]
OtherBot == [id |-> 4, bot |-> TRUE, administrator |-> FALSE, roles |-> {}]
BotUser == [id |-> BotUserId, bot |-> TRUE, administrator |-> FALSE, roles |-> {}]

ImageEmbed == [image |-> TRUE, thumbnail |-> FALSE]

Msg(author, guild, channel, attachments, embeds) ==
    [author |-> author, guild |-> guild, channel |-> channel,
     attachments |-> attachments, embeds |-> embeds]

\* The message events dispatched.  Under DefaultConfig the first three are
\* enforced; under TunedConfig the second is posted by the holder of an exempt
\* role, the third in an exempt channel and the fourth by an administrator in an
\* exempt channel.
Messages ==
    { Msg(Member1, GuildId, 21, <<MovieMp4, PicPNG>>, <<ImageEmbed>>),
      Msg(Member2, GuildId, 21, <<PicPng>>, <<>>),
      Msg(Member1, GuildId, 22, <<>>, <<ImageEmbed, ImageEmbed>>),
      Msg(Admin3, GuildId, 22, <<PicPng>>, <<>>),
      Msg(OtherBot, GuildId, 21, <<PicPng>>, <<>>),
      Msg(BotUser, GuildId, 21, <<PicPng>>, <<>>),
      Msg(Member1, NoGuild, 23, <<PicPng>>, <<>>),
      Msg(Member1, GuildId, 21, <<>>, <<>>) }

\* the members who invoke admin commands while messages are handled
Actors == {Member1, Admin3}

\* the members who invoke admin commands in SpecAdmin
AdminActors == {Member1, Member2, Admin3}

\* no interaction has been answered yet
NoResponse == [user |-> 0, text |-> "", top_banned |-> <<>>]

\* interaction.response.send_message(...): the reply the invoking member gets
Reply(actor, text) == [user |-> actor.id, text |-> text, top_banned |-> <<>>]

---------------------------------------------------------------------------
(* The persisted documents *)

\* json.dump of a dict: the members of the object, key then value, in the order
\* `keys`
JsonObject(d, keys) == [i \in DOMAIN keys |-> <<keys[i], d[keys[i]]>>]

\* json.load of an object into a dict: a repeated key keeps its last value
JsonLoadObject(members) ==
    [k \in {members[i][1] : i \in DOMAIN members} |->
        members[CHOOSE i \in DOMAIN members :
                    /\ members[i][1] = k
                    /\ \A j \in DOMAIN members : members[j][1] = k => j <= i][2]]

\* json.load of an object into a dict whose order is kept: the keys in the
\* order of their first occurrence, each with its last value
RECURSIVE JsonLoadOrdered(_)
JsonLoadOrdered(members) ==
    IF members = <<>> THEN <<>>
    ELSE LET last == members[Len(members)]
         IN  DictSet(JsonLoadOrdered(SubSeq(members, 1, Len(members) - 1)),
                     last[1], last[2])

\* the keys of a dict modelled as a function, in some fixed order
RECURSIVE KeySeq(_)
KeySeq(keys) ==
    IF keys = {} THEN <<>>
    ELSE LET k == CHOOSE x \in keys : TRUE IN <<k>> \o KeySeq(keys \ {k})

\* the keys of the configuration, in the order of lines 62-69
ConfigFields == <<"enabled", "ban_message", "log_channel", "banned_content",
                  "exempt_roles", "exempt_channels", "delete_messages", "notify_user">>

\* json.dump(auto_ban_config, f), line 94
DumpConfig(cfg) ==
    JsonObject(cfg, SelectSeq(ConfigFields, LAMBDA k : k \in DOMAIN cfg))

\* json.load(f), line 58
LoadConfig(text) == JsonLoadObject(text)

\* json.dump(authorized_data, f), line 86
DumpAuthorized(data) ==
    LET guilds == KeySeq(DOMAIN data)
    IN  [i \in DOMAIN guilds |->
            <<guilds[i], JsonObject(data[guilds[i]], <<"users", "roles">>)>>]

\* json.load(f), line 48
LoadAuthorized(text) ==
    LET top == JsonLoadObject(text)
    IN  [g \in DOMAIN top |-> JsonLoadObject(top[g])]

\* json.dump(ban_statistics, f), line 102
DumpStatistics(stats) ==
    <<  <<"total_bans", stats.total_bans>>,
        <<"bans_by_type", stats.bans_by_type>>,
        <<"bans_by_user", stats.bans_by_user>>  >>

\* json.load(f), line 76
LoadStatistics(text) ==
    LET top == JsonLoadObject(text)
    IN  [total_bans |-> top["total_bans"],
         bans_by_type |-> JsonLoadOrdered(top["bans_by_type"]),
         bans_by_user |-> JsonLoadOrdered(top["bans_by_user"])]

Missing == [kind |-> "missing", doc |-> <<>>]
Corrupt == [kind |-> "corrupt", doc |-> <<>>]
\* a file holding the JSON text `doc`
Stored(doc) == [kind |-> "ok", doc |-> doc]

\* load_data, lines 61-70
DefaultConfig ==
    [enabled |-> TRUE,
     ban_message |-> "You have been automatically banned for posting prohibited content.",
     log_channel |-> NoChannel,
     banned_content |-> <<"image", "gif", "video", "file">>,
     exempt_roles |-> <<>>,
     exempt_channels |-> <<>>,
     delete_messages |-> TRUE,
     notify_user |-> TRUE]

\* load_data, line 79, and the module's initial value, line 37
DefaultStatistics == [total_bans |-> 0, bans_by_type |-> <<>>, bans_by_user |-> <<>>]

\* get_guild_data, lines 110-113
EmptyGuildData == [users |-> <<>>, roles |-> <<>>]

\* a configuration document left by an earlier run
TunedConfig ==
    [enabled |-> TRUE,
     ban_message |-> "Banned.",
     log_channel |-> LogChannelId,
     banned_content |-> <<"image">>,
     exempt_roles |-> <<"11">>,
     exempt_channels |-> <<"22">>,
     delete_messages |-> TRUE,
     notify_user |-> FALSE]

\* authorization documents left by an earlier run
ListedAuthorized == [g \in {"100"} |-> [users |-> <<"1">>, roles |-> <<>>]]

RoleAuthorized == [g \in {"100"} |-> [users |-> <<>>, roles |-> <<"11">>]]

\* statistics documents left by an earlier run
StatisticsSix ==
    [total_bans |-> 10,
     bans_by_type |-> << <<"image", 7>>, <<"gif", 3>> >>,
     bans_by_user |-> << <<"1", 1>>, <<"2", 2>>, <<"6", 1>>, <<"7", 2>>,
                         <<"8", 1>>, <<"9", 3>> >>]

StatisticsTie ==
    [total_bans |-> 4,
     bans_by_type |-> << <<"video", 4>> >>,
     bans_by_user |-> << <<"7", 2>>, <<"1", 2>> >>]

\* what a save_* call can do to its file: write it, fail before touching it
\* (open() raises), or fail after open() truncated it (the write raises)
SaveResults == {"ok", "not_written", "truncated"}

\* save_authorized_data / save_auto_ban_config / save_ban_statistics,
\* lines 82-104: the file after `doc`, the JSON text of the document, is
\* written to it; every exception is swallowed
Save(file, doc, result) ==
    CASE result = "ok" -> Stored(doc)
      [] result = "not_written" -> file
      [] result = "truncated" -> Corrupt

---------------------------------------------------------------------------
(* on_message and auto_ban_user up to the first suspension point *)

\* a mutant of ConfigEnabled: the enabled flag is ignored
ConfigEnabledAlways(cfg) == TRUE \/ CfgGet(cfg, "enabled", TRUE)

\* auto_ban_config.get('enabled', True), lines 178 and 290
ConfigEnabled(cfg) == CfgGet(cfg, "enabled", TRUE)

\* auto_ban_config.get('banned_content', [...]), line 317
BannedTypes(cfg) == CfgGet(cfg, "banned_content", <<"image", "gif", "video", "file">>)

\* the condition of line 319
IsBanned(content_type, banned_types) ==
    \/ content_type \in Range(banned_types)
    \/ (content_type = "embed_image" /\ "image" \in Range(banned_types))

\* a mutant of FirstBanned: the loop does not stop at the first banned type
RECURSIVE LastBanned(_, _)
LastBanned(detected, banned_types) ==
    IF detected = <<>> THEN ""
    ELSE IF LastBanned(Tail(detected), banned_types) # ""
         THEN LastBanned(Tail(detected), banned_types)
    ELSE IF IsBanned(Head(detected), banned_types) THEN Head(detected)
    ELSE ""

\* the loop of lines 318-321: the content type auto_ban_user is called with,
\* "" when the loop ends without a call
RECURSIVE FirstBanned(_, _)
FirstBanned(detected, banned_types) ==
    IF detected = <<>> THEN ""
    ELSE IF IsBanned(Head(detected), banned_types) THEN Head(detected)
    ELSE FirstBanned(Tail(detected), banned_types)

\* [str(role.id) for role in user.roles], lines 123 and 189
RoleIds(member) == {ToString(r) : r \in member.roles}

\* a mutant of GateSkip: administrators are not skipped
GateSkipNoAdministrator(message, cfg) ==
    IF ~ConfigEnabled(cfg) THEN "disabled"
    ELSE IF message.author.bot THEN "bot"
    ELSE IF RoleIds(message.author) \cap Range(CfgGet(cfg, "exempt_roles", <<>>)) # {}
         THEN "exempt_role"
    ELSE IF ToString(message.channel) \in Range(CfgGet(cfg, "exempt_channels", <<>>))
         THEN "exempt_channel"
    ELSE "proceed"

\* auto_ban_user, lines 178-202: the return taken, or "proceed"
GateSkip(message, cfg) ==
    IF ~ConfigEnabled(cfg) THEN "disabled"
    ELSE IF message.author.bot THEN "bot"
    ELSE IF RoleIds(message.author) \cap Range(CfgGet(cfg, "exempt_roles", <<>>)) # {}
         THEN "exempt_role"
    ELSE IF ToString(message.channel) \in Range(CfgGet(cfg, "exempt_channels", <<>>))
         THEN "exempt_channel"
    ELSE IF message.author.administrator THEN "administrator"
    ELSE "proceed"

\* the coroutine calls `op` and is suspended in it
Invoke(pass, op) == [pass EXCEPT !.pc = op, !.calls = Append(@, op)]

\* a call that does not suspend the coroutine
Did(pass, op) == [pass EXCEPT !.calls = Append(@, op)]

\* the coroutine returns
Finish(pass) == [pass EXCEPT !.pc = "done"]

\* the pending call raises an exception that no inner handler catches: the
\* handlers of lines 240-243 log it and the coroutine returns
Abort(pass) == [pass EXCEPT !.pc = "done", !.failed = pass.pc]

\* a mutant of AfterDelete: enabled is read again after the delete step and
\* the pass returns when it has become false
AfterDeleteRechecked(pass, cfg) ==
    IF ~ConfigEnabled(cfg) THEN Finish(pass)
    ELSE IF CfgGet(cfg, "notify_user", TRUE) THEN Invoke(pass, "notify")
    ELSE Invoke(pass, "ban")

\* lines 213-227: what follows the delete step
AfterDelete(pass, cfg) ==
    IF CfgGet(cfg, "notify_user", TRUE) THEN Invoke(pass, "notify") ELSE Invoke(pass, "ban")

\* lines 204-211: what follows the gate
AfterGate(pass, cfg) ==
    IF CfgGet(cfg, "delete_messages", TRUE) THEN Invoke(pass, "delete")
    ELSE AfterDelete(pass, cfg)

\* on_message, lines 285-321, run to its first suspension point or to its return
NewPass(message, cfg) ==
    LET base == [msg |-> message, detected |-> <<>>,
                 content_type |-> "", outcome |-> "own_message",
                 pc |-> "done", calls |-> <<>>, failed |-> "",
                 saved |-> "", audit |-> ""]
        detected == ContentDetected(message.attachments, message.embeds)
        content_type == FirstBanned(detected, BannedTypes(cfg))
        skip == GateSkip(message, cfg)
    IN  IF message.author.id = BotUserId THEN base
        ELSE IF ~(ConfigEnabled(cfg) /\ message.guild # NoGuild)
             THEN [base EXCEPT !.outcome = "not_checked"]
        ELSE IF content_type = ""
             THEN [base EXCEPT !.outcome = "no_match", !.detected = detected]
        ELSE IF skip # "proceed"
             THEN [base EXCEPT !.outcome = skip, !.detected = detected,
                               !.content_type = content_type]
        ELSE AfterGate([base EXCEPT !.outcome = "enforcing", !.detected = detected,
                                    !.content_type = content_type], cfg)

OnMessage(message) ==
    /\ Len(passes) < MaxPasses
    /\ passes' = Append(passes, NewPass(message, auto_ban_config))
    /\ UNCHANGED <<auto_ban_config, authorized_data, ban_statistics, file_config,
                   file_authorized, file_statistics, response, classifierVars>>

---------------------------------------------------------------------------
(* auto_ban_user resumed at its suspension points *)

\* message.delete() returns or raises, lines 207-211; any exception other than
\* discord.Forbidden leaves the try of line 204 through line 242
DeleteReturns(i, result) ==
    /\ passes[i].pc = "delete"
    /\ passes' = [passes EXCEPT ![i] =
                    IF result = "error" THEN Abort(@)
                    ELSE AfterDelete(@, auto_ban_config)]
    /\ UNCHANGED <<auto_ban_config, authorized_data, ban_statistics, file_config,
                   file_authorized, file_statistics, response, classifierVars>>

\* user.send() returns or raises, lines 215-224
NotifyReturns(i, result) ==
    /\ passes[i].pc = "notify"
    /\ passes' = [passes EXCEPT ![i] =
                    IF result = "error" THEN Abort(@)
                    ELSE Invoke(@, "ban")]
    /\ UNCHANGED <<auto_ban_config, authorized_data, ban_statistics, file_config,
                   file_authorized, file_statistics, response, classifierVars>>

\* a mutant of RecordBan: total_bans is set to 1 instead of being incremented
RecordBanRestart(stats, content_type, user_id) ==
    [total_bans |-> 1,
     bans_by_type |-> DictSet(stats.bans_by_type, content_type,
                              DictGet(stats.bans_by_type, content_type, 0) + 1),
     bans_by_user |-> DictSet(stats.bans_by_user, user_id,
                              DictGet(stats.bans_by_user, user_id, 0) + 1)]

\* a mutant of RecordBan: the per-user counter is left alone
RecordBanNoUser(stats, content_type, user_id) ==
    [total_bans |-> stats.total_bans + 1,
     bans_by_type |-> DictSet(stats.bans_by_type, content_type,
                              DictGet(stats.bans_by_type, content_type, 0) + 1),
     bans_by_user |-> stats.bans_by_user]

\* lines 230-232
RecordBan(stats, content_type, user_id) ==
    [total_bans |-> stats.total_bans + 1,
     bans_by_type |-> DictSet(stats.bans_by_type, content_type,
                              DictGet(stats.bans_by_type, content_type, 0) + 1),
     bans_by_user |-> DictSet(stats.bans_by_user, user_id,
                              DictGet(stats.bans_by_user, user_id, 0) + 1)]

\* a mutant of BanFails: the statistics are updated before the ban is known to
\* have succeeded
BanFailsCounted(i, result) ==
    /\ passes[i].pc = "ban"
    /\ result \in {"forbidden", "error"}
    /\ ban_statistics' = RecordBan(ban_statistics, passes[i].content_type,
                                   ToString(passes[i].msg.author.id))
    /\ passes' = [passes EXCEPT ![i] = Abort(@)]
    /\ UNCHANGED <<auto_ban_config, authorized_data, file_config,
                   file_authorized, file_statistics, response, classifierVars>>

\* guild.ban() raises, lines 227 and 240-243
BanFails(i, result) ==
    /\ passes[i].pc = "ban"
    /\ result \in {"forbidden", "error"}
    /\ passes' = [passes EXCEPT ![i] = Abort(@)]
    /\ UNCHANGED <<auto_ban_config, authorized_data, ban_statistics, file_config,
                   file_authorized, file_statistics, response, classifierVars>>

\* log_auto_ban_action, lines 136-172, up to log_channel.send: `prepared` is
\* "send" when the channel is found and the embed is built, "no_channel" when
\* guild.get_channel returns None, "raised" when building the embed raises
\* (the exception is swallowed at line 173)
LogAutoBanAction(pass, cfg, prepared) ==
    IF CfgGet(cfg, "log_channel", NoChannel) = NoChannel THEN Finish(pass)
    ELSE IF prepared = "send" THEN Invoke(pass, "audit")
    ELSE Finish(pass)

\* a mutant of AfterBan: the action is logged before the statistics are updated
AfterBanLogFirst(pass, cfg, saved, prepared) ==
    [Did(Did(LogAutoBanAction(pass, cfg, prepared), "stats"), "save")
        EXCEPT !.saved = saved]

\* lines 229-236: the coroutine from the return of guild.ban to its next
\* suspension point; `saved` is what save_ban_statistics did
AfterBan(pass, cfg, saved, prepared) ==
    LogAutoBanAction([Did(Did(pass, "stats"), "save") EXCEPT !.saved = saved],
                     cfg, prepared)

\* guild.ban() returns, lines 227-236
BanSucceeds(i, saved, prepared) ==
    /\ passes[i].pc = "ban"
    /\ ban_statistics' = RecordBan(ban_statistics, passes[i].content_type,
                                   ToString(passes[i].msg.author.id))
    /\ file_statistics' = Save(file_statistics, DumpStatistics(ban_statistics'), saved)
    /\ passes' = [passes EXCEPT ![i] = AfterBan(@, auto_ban_config, saved, prepared)]
    /\ UNCHANGED <<auto_ban_config, authorized_data, file_config, file_authorized,
                   response, classifierVars>>

\* a mutant of AuditReturns: a failed delivery is not caught inside
\* log_auto_ban_action and ends the pass through the handler of line 242
AuditReturnsFatal(i, result) ==
    /\ passes[i].pc = "audit"
    /\ result \in {"ok", "error"}
    /\ passes' = [passes EXCEPT ![i] =
                    IF result = "error" THEN Abort([@ EXCEPT !.audit = result])
                    ELSE Finish([@ EXCEPT !.audit = result])]
    /\ UNCHANGED <<auto_ban_config, authorized_data, ban_statistics, file_config,
                   file_authorized, file_statistics, response, classifierVars>>

\* log_channel.send() returns or raises, lines 172-174 and 238
AuditReturns(i, result) ==
    /\ passes[i].pc = "audit"
    /\ result \in {"ok", "error"}
    /\ passes' = [passes EXCEPT ![i] = Finish([@ EXCEPT !.audit = result])]
    /\ UNCHANGED <<auto_ban_config, authorized_data, ban_statistics, file_config,
                   file_authorized, file_statistics, response, classifierVars>>

---------------------------------------------------------------------------
(* on_ready: load_data, lines 41-80 *)

\* json.load raises on a corrupt file; only FileNotFoundError is caught, so the
\* exception leaves load_data and the documents after it are not loaded
AuthorizedRaises == file_authorized.kind = "corrupt"
ConfigRaises == file_config.kind = "corrupt"
StatisticsRaises == file_statistics.kind = "corrupt"

\* a mutant of Loaded: the document read from the file is dropped for the default
LoadedDefault(file, parsed, default, current) ==
    IF file.kind = "corrupt" THEN current ELSE default

\* one try block of load_data: the in-memory value after it
Loaded(file, parsed, default, current) ==
    CASE file.kind = "ok" -> parsed
      [] file.kind = "missing" -> default
      [] file.kind = "corrupt" -> current

\* one try block of load_data: the file after it (saved when it was missing)
LoadedFile(file, dumped, saved) ==
    IF file.kind = "missing" THEN Save(file, dumped, saved) ELSE file

OnReady(saved1, saved2, saved3) ==
    /\ authorized_data' = Loaded(file_authorized, LoadAuthorized(file_authorized.doc),
                                 EmptyDict, authorized_data)
    /\ file_authorized' = LoadedFile(file_authorized, DumpAuthorized(EmptyDict), saved1)
    /\ IF AuthorizedRaises
       THEN UNCHANGED <<auto_ban_config, file_config, ban_statistics, file_statistics>>
       ELSE /\ auto_ban_config' = Loaded(file_config, LoadConfig(file_config.doc),
                                         DefaultConfig, auto_ban_config)
            /\ file_config' = LoadedFile(file_config, DumpConfig(DefaultConfig), saved2)
            /\ IF ConfigRaises
               THEN UNCHANGED <<ban_statistics, file_statistics>>
               ELSE /\ ban_statistics' =
                          Loaded(file_statistics, LoadStatistics(file_statistics.doc),
                                 DefaultStatistics, ban_statistics)
                    /\ file_statistics' =
                          LoadedFile(file_statistics, DumpStatistics(DefaultStatistics),
                                     saved3)
    /\ UNCHANGED <<passes, response, classifierVars>>

---------------------------------------------------------------------------
(* The admin commands *)

\* get_guild_data, lines 106-114: authorized_data after the call
GetGuildData(data, guild_id) ==
    IF ToString(guild_id) \in DOMAIN data THEN data
    ELSE [g \in (DOMAIN data) \cup {ToString(guild_id)} |->
            IF g = ToString(guild_id) THEN EmptyGuildData ELSE data[g]]

\* a mutant of IsAuthorized: the roles of the member are not looked at
IsAuthorizedNoRoles(guild_data, actor) ==
    \/ ToString(actor.id) \in Range(guild_data.users)
    \/ actor.administrator

\* is_authorized, lines 120-130, on the entry get_guild_data returned
IsAuthorized(guild_data, actor) ==
    \/ ToString(actor.id) \in Range(guild_data.users)
    \/ RoleIds(actor) \cap Range(guild_data.roles) # {}
    \/ actor.administrator

\* the guard every command starts with, e.g. lines 454-456
Permitted(actor) ==
    IsAuthorized(GetGuildData(authorized_data, GuildId)[ToString(GuildId)], actor)

\* a mutant of SetEnabled: the command does not ask is_authorized
SetEnabledUngated(actor, value, saved) ==
    /\ auto_ban_config' = CfgSet(auto_ban_config, "enabled", value)
    /\ file_config' = Save(file_config, DumpConfig(auto_ban_config'), saved)
    /\ response' = Reply(actor, IF value THEN "enabled" ELSE "disabled")
    /\ UNCHANGED <<authorized_data, ban_statistics, file_authorized, file_statistics,
                   passes, classifierVars>>

\* auto_ban_enable (value TRUE), lines 453-460, and auto_ban_disable (FALSE),
\* lines 464-471
SetEnabled(actor, value, saved) ==
    /\ authorized_data' = GetGuildData(authorized_data, GuildId)
    /\ IF Permitted(actor)
       THEN /\ auto_ban_config' = CfgSet(auto_ban_config, "enabled", value)
            /\ file_config' = Save(file_config, DumpConfig(auto_ban_config'), saved)
            /\ response' = Reply(actor, IF value THEN "enabled" ELSE "disabled")
       ELSE /\ response' = Reply(actor, "no_permission")
            /\ UNCHANGED <<auto_ban_config, file_config>>
    /\ UNCHANGED <<ban_statistics, file_authorized, file_statistics, passes,
                   classifierVars>>

AutoBanEnable(actor, saved) == SetEnabled(actor, TRUE, saved)

AutoBanDisable(actor, saved) == SetEnabled(actor, FALSE, saved)

\* set_log_channel, lines 476-483
SetLogChannel(actor, channel, saved) ==
    /\ authorized_data' = GetGuildData(authorized_data, GuildId)
    /\ IF Permitted(actor)
       THEN /\ auto_ban_config' = CfgSet(auto_ban_config, "log_channel", channel)
            /\ file_config' = Save(file_config, DumpConfig(auto_ban_config'), saved)
            /\ response' = Reply(actor, "log_channel_set")
       ELSE /\ response' = Reply(actor, "no_permission")
            /\ UNCHANGED <<auto_ban_config, file_config>>
    /\ UNCHANGED <<ban_statistics, file_authorized, file_statistics, passes,
                   classifierVars>>

\* authorize_user, lines 487-500
AuthorizeUser(actor, user, saved) ==
    LET data == GetGuildData(authorized_data, GuildId)
        g == ToString(GuildId)
        user_id == ToString(user.id)
    IN  /\ IF ~Permitted(actor)
           THEN /\ authorized_data' = data
                /\ response' = Reply(actor, "no_permission")
                /\ UNCHANGED file_authorized
           ELSE IF user_id \notin Range(data[g].users)
           THEN /\ authorized_data' =
                      [data EXCEPT ![g] = [users |-> Append(data[g].users, user_id),
                                           roles |-> data[g].roles]]
                /\ file_authorized' =
                      Save(file_authorized, DumpAuthorized(authorized_data'), saved)
                /\ response' = Reply(actor, "authorized")
           ELSE /\ authorized_data' = data
                /\ response' = Reply(actor, "already_authorized")
                /\ UNCHANGED file_authorized
        /\ UNCHANGED <<auto_ban_config, ban_statistics, file_config, file_statistics,
                       passes, classifierVars>>

\* [:5], line 446
TopN == 5

\* a mutant of InsertByCount: an item goes before the items of equal count
InsertByCountBeforeEqual(sorted, item) ==
    LET before == {i \in DOMAIN sorted : sorted[i][2] > item[2]}
    IN  SubSeq(sorted, 1, Cardinality(before)) \o <<item>>
            \o SubSeq(sorted, Cardinality(before) + 1, Len(sorted))

\* one more item of .items() placed by sorted(..., key=lambda x: x[1],
\* reverse=True), line 446: the sort is stable, so the item goes after the
\* items seen before it whose count is not less than its own
InsertByCount(sorted, item) ==
    LET before == {i \in DOMAIN sorted : sorted[i][2] >= item[2]}
    IN  SubSeq(sorted, 1, Cardinality(before)) \o <<item>>
            \o SubSeq(sorted, Cardinality(before) + 1, Len(sorted))

\* sorted(items, key=lambda x: x[1], reverse=True), line 446
RECURSIVE SortedByCount(_)
SortedByCount(items) ==
    IF items = <<>> THEN <<>>
    ELSE InsertByCount(SortedByCount(SubSeq(items, 1, Len(items) - 1)),
                       items[Len(items)])

\* top_banned, line 446
TopBanned(bans_by_user) ==
    LET sorted == SortedByCount(bans_by_user)
    IN  SubSeq(sorted, 1, IF Len(sorted) < TopN THEN Len(sorted) ELSE TopN)

\* ban_stats, lines 432-450
BanStats(actor) ==
    /\ authorized_data' = GetGuildData(authorized_data, GuildId)
    /\ response' =
          IF Permitted(actor)
          THEN [user |-> actor.id, text |-> "ban_statistics",
                top_banned |-> TopBanned(ban_statistics.bans_by_user)]
          ELSE Reply(actor, "no_permission")
    /\ UNCHANGED <<auto_ban_config, ban_statistics, file_config, file_authorized,
                   file_statistics, passes, classifierVars>>

---------------------------------------------------------------------------
(* The specifications *)

\* the classifier harness at rest, while the pipeline runs
ClassifierIdle ==
    /\ cl_msg = [attachments |-> <<>>, embeds |-> <<>>]
    /\ cl_out = <<>>
    /\ cl_pc = "done"

\* The enforcement pipeline: the module's globals, lines 34-37, over the files
\* an earlier run may have left.  In this specification the saves of the
\* statistics document may fail; those of the two other documents succeed (their
\* failures are explored by SpecAdmin, without message events).
Init ==
    /\ auto_ban_config = EmptyDict
    /\ authorized_data = EmptyDict
    /\ ban_statistics = DefaultStatistics
    /\ file_config \in {Missing, Stored(DumpConfig(TunedConfig))}
    /\ file_authorized = Missing
    /\ file_statistics = Missing
    /\ passes = <<>>
    /\ response = NoResponse
    /\ ClassifierIdle

Next ==
    \/ \E m \in Messages : OnMessage(m)
    \/ \E i \in DOMAIN passes, r \in {"ok", "forbidden", "error"} : DeleteReturns(i, r)
    \/ \E i \in DOMAIN passes, r \in {"ok", "forbidden", "error"} : NotifyReturns(i, r)
    \/ \E i \in DOMAIN passes, r \in {"forbidden", "error"} : BanFails(i, r)
    \/ \E i \in DOMAIN passes, s \in SaveResults,
          a \in {"send", "no_channel", "raised"} : BanSucceeds(i, s, a)
    \/ \E i \in DOMAIN passes, r \in {"ok", "error"} : AuditReturns(i, r)
    \/ \E s \in SaveResults : OnReady("ok", "ok", s)
    \/ \E actor \in Actors : AutoBanEnable(actor, "ok")
    \/ \E actor \in Actors : AutoBanDisable(actor, "ok")

Spec == Init /\ [][Next]_vars

\* The admin commands and load_data over every outcome of every save, without
\* message events.  The files an earlier run may have left, as
\* <<auto_ban_config.json, authorized.json, ban_statistics.json>>:
AdminFiles ==
    { <<Missing, Missing, Missing>>,
      <<Corrupt, Missing, Stored(DumpStatistics(StatisticsTie))>>,
      <<Missing, Corrupt, Corrupt>>,
      <<Stored(DumpConfig(TunedConfig)), Missing, Stored(DumpStatistics(StatisticsSix))>>,
      <<Stored(DumpConfig(TunedConfig)), Stored(DumpAuthorized(ListedAuthorized)),
        Stored(DumpStatistics(StatisticsTie))>>,
      <<Missing, Stored(DumpAuthorized(RoleAuthorized)),
        Stored(DumpStatistics(StatisticsSix))>> }

AdminInit ==
    /\ auto_ban_config = EmptyDict
    /\ authorized_data = EmptyDict
    /\ ban_statistics = DefaultStatistics
    /\ \E files \in AdminFiles :
          /\ file_config = files[1]
          /\ file_authorized = files[2]
          /\ file_statistics = files[3]
    /\ passes = <<>>
    /\ response = NoResponse
    /\ ClassifierIdle

AdminNext ==
    \/ \E s1, s2, s3 \in SaveResults : OnReady(s1, s2, s3)
    \/ \E actor \in AdminActors, s \in SaveResults : AutoBanEnable(actor, s)
    \/ \E actor \in AdminActors, s \in SaveResults : AutoBanDisable(actor, s)
    \/ \E actor \in AdminActors, s \in SaveResults :
            SetLogChannel(actor, LogChannelId, s)
    \/ \E actor \in AdminActors, s \in SaveResults : AuthorizeUser(actor, Member1, s)
    \/ \E actor \in AdminActors : BanStats(actor)

SpecAdmin == AdminInit /\ [][AdminNext]_vars

\* the classifier applied to every bounded message
ClassifierInit ==
    /\ auto_ban_config = EmptyDict
    /\ authorized_data = EmptyDict
    /\ ban_statistics = DefaultStatistics
    /\ file_config = Missing
    /\ file_authorized = Missing
    /\ file_statistics = Missing
    /\ passes = <<>>
    /\ response = NoResponse
    /\ cl_msg \in ClassifierInputs
    /\ cl_out = <<>>
    /\ cl_pc = "start"

ClassifierNext == Classify

SpecClassifier == ClassifierInit /\ [][ClassifierNext]_vars

---------------------------------------------------------------------------
(* Properties *)

\* d.get(k, 0), written out for the properties
CountOf(d, k) ==
    LET at == {i \in DOMAIN d : d[i][1] = k}
    IN  IF at = {} THEN 0 ELSE d[CHOOSE i \in at : TRUE][2]

AllTags == {"image", "gif", "video", "file", "embed_image", "executable"}

AllUserIds == {ToString(m.author.id) : m \in Messages}

\* this step dispatches a message event: its pass is the last of passes'
Dispatches == Len(passes') = Len(passes) + 1

\* how often a pass has called `op`
TimesCalled(pass, op) == Cardinality({k \in DOMAIN pass.calls : pass.calls[k] = op})

\* a pass that has returned does nothing more
ReturnedPassesRest == \A i \in DOMAIN passes : passes[i].pc = "done" => passes'[i] = passes[i]

(* C1: a message event dispatched while enabled is false is skipped whatever
   its attachments and embeds are: its pass returns at once having called
   neither delete, notify, ban nor the audit send, the statistics and their
   file are unchanged, and the returned pass never acts later. *)
C1_DisabledSkips ==
    [][ /\ ( /\ Dispatches
             /\ "enabled" \in DOMAIN auto_ban_config
             /\ auto_ban_config["enabled"] = FALSE )
           => /\ passes'[Len(passes')].pc = "done"
              /\ passes'[Len(passes')].calls = <<>>
              /\ UNCHANGED <<ban_statistics, file_statistics>>
        /\ ReturnedPassesRest ]_vars

C1_Witness ==
    \E i \in DOMAIN passes :
        /\ passes[i].outcome = "not_checked"
        /\ passes[i].msg.guild = GuildId
        /\ passes[i].msg.attachments # <<>>
        /\ passes[i].calls = <<>>
        /\ "enabled" \in DOMAIN auto_ban_config
        /\ auto_ban_config["enabled"] = FALSE

\* the author is an administrator or holds an exempt role, or the channel is exempt
Exempted(message, cfg) ==
    \/ message.author.administrator
    \/ /\ "exempt_roles" \in DOMAIN cfg
       /\ \E r \in message.author.roles : ToString(r) \in Range(cfg["exempt_roles"])
    \/ /\ "exempt_channels" \in DOMAIN cfg
       /\ ToString(message.channel) \in Range(cfg["exempt_channels"])

(* C2: a message event whose author is an administrator or holds a role in
   exempt_roles, or whose channel is in exempt_channels, is never enforced,
   also when one of its tags is banned: its pass returns at once without
   delete, notify or ban, the statistics are unchanged, and the returned pass
   never acts later. *)
C2_ExemptNeverEnforced ==
    [][ /\ (Dispatches /\ Exempted(passes'[Len(passes')].msg, auto_ban_config))
           => /\ passes'[Len(passes')].pc = "done"
              /\ passes'[Len(passes')].calls = <<>>
              /\ passes'[Len(passes')].outcome # "enforcing"
              /\ UNCHANGED <<ban_statistics, file_statistics>>
        /\ ReturnedPassesRest ]_vars

C2_Witness ==
    /\ \E i \in DOMAIN passes :
        /\ passes[i].outcome = "exempt_channel"
        /\ passes[i].content_type = "embed_image"
        /\ passes[i].pc = "done"
        /\ passes[i].calls = <<>>
    /\ \E i \in DOMAIN passes :
        /\ passes[i].outcome = "exempt_role"
        /\ passes[i].content_type = "image"
        /\ passes[i].calls = <<>>

(* C3: when the ban action fails, the pass returns in that step without
   changing the statistics or their file, it has made neither the statistics
   update, the save nor the audit send, and never makes them later. *)
C3_FailedBanRecordsNothing ==
    [][ \A i \in DOMAIN passes :
          /\ (passes[i].pc = "ban" /\ passes'[i].failed = "ban")
                => /\ passes'[i].pc = "done"
                   /\ passes'[i].calls = passes[i].calls
                   /\ {"stats", "save", "audit"} \cap Range(passes'[i].calls) = {}
                   /\ UNCHANGED <<ban_statistics, file_statistics>>
          /\ passes[i].failed = "ban" => passes'[i] = passes[i] ]_vars

\* a ban failed, and a message dispatched later was enforced to the end
C3_Witness ==
    \E i, j \in DOMAIN passes :
        /\ i < j
        /\ passes[i].failed = "ban"
        /\ passes[j].pc = "done"
        /\ "save" \in Range(passes[j].calls)
        /\ ban_statistics.total_bans = 1

(* C4: whenever a pass is enforced (it passed every gate), the ban action is
   attempted, whatever happened to the delete and the notice. *)
C4_BanAlwaysAttempted ==
    \A i \in DOMAIN passes :
        (passes[i].outcome = "enforcing" /\ passes[i].pc = "done")
            => "ban" \in Range(passes[i].calls)

\* in this step the ban action of pass i returns successfully
BanReturnsOk(i) ==
    /\ passes[i].pc = "ban"
    /\ passes'[i].pc # "ban"
    /\ passes'[i].failed = ""

(* C5: a successful ban adds exactly 1 to total_bans, to bans_by_type[tag] and
   to bans_by_user[author id], tag being the ban reason tag, and changes no
   other counter; it does so in the step in which the ban returns, whatever
   other passes are in flight. *)
C5_BanCountsOnce ==
    [][ \A i \in DOMAIN passes :
          BanReturnsOk(i) =>
            LET tag == passes[i].content_type
                uid == ToString(passes[i].msg.author.id)
            IN  /\ ban_statistics'.total_bans = ban_statistics.total_bans + 1
                /\ \A t \in AllTags :
                     CountOf(ban_statistics'.bans_by_type, t) =
                       CountOf(ban_statistics.bans_by_type, t) + (IF t = tag THEN 1 ELSE 0)
                /\ \A u \in AllUserIds :
                     CountOf(ban_statistics'.bans_by_user, u) =
                       CountOf(ban_statistics.bans_by_user, u) + (IF u = uid THEN 1 ELSE 0)
                /\ DictKeys(ban_statistics'.bans_by_type) \subseteq AllTags
                /\ DictKeys(ban_statistics'.bans_by_user) \subseteq AllUserIds ]_vars

\* two passes were in flight together and both bans were counted
C5_Witness ==
    /\ Len(passes) = 2
    /\ passes[1].pc = "audit"
    /\ passes[2].pc = "done"
    /\ "save" \in Range(passes[2].calls)
    /\ passes[1].msg.author.id # passes[2].msg.author.id
    /\ ban_statistics.total_bans = 2
    /\ CountOf(ban_statistics.bans_by_type, "image") = 1
    /\ CountOf(ban_statistics.bans_by_user, "2") = 1

(* C6: total_bans and every per-tag and per-user counter never decrease, in
   any step of any handler. *)
C6_CountersNeverDecrease ==
    [][ /\ ban_statistics'.total_bans >= ban_statistics.total_bans
        /\ \A t \in AllTags :
             CountOf(ban_statistics'.bans_by_type, t) >= CountOf(ban_statistics.bans_by_type, t)
        /\ \A u \in AllUserIds :
             CountOf(ban_statistics'.bans_by_user, u) >= CountOf(ban_statistics.bans_by_user, u)
      ]_vars

\* the tag of an attachment by the extension table; "other" for an unlisted one
ListedTag(name) ==
    LET f == Lower(name)
    IN  IF EndsWithAny(f, ImageExts) THEN "image"
        ELSE IF EndsWith(f, GifExt) THEN "gif"
        ELSE IF EndsWithAny(f, VideoExts) THEN "video"
        ELSE "other"

(* C7: the classification contains the tag of every attachment, whatever the
   other attachments are: image, gif or video for a listed extension, and file
   (or executable) for any other. *)
C7_EveryAttachmentTagged ==
    cl_pc = "done" =>
        \A k \in DOMAIN cl_msg.attachments :
            LET t == ListedTag(cl_msg.attachments[k])
            IN  IF t = "other"
                THEN {"file", "executable"} \cap Range(cl_out) # {}
                ELSE t \in Range(cl_out)

(* C8: the classification contains embed_image exactly when some embed carries
   an image or a thumbnail, whatever the attachments are, and contains no tag
   twice. *)
C8_EmbedImageIff ==
    cl_pc = "done" =>
        /\ ("embed_image" \in Range(cl_out))
              <=> (\E k \in DOMAIN cl_msg.embeds :
                      cl_msg.embeds[k].image \/ cl_msg.embeds[k].thumbnail)
        /\ \A j, k \in DOMAIN cl_out : cl_out[j] = cl_out[k] => j = k

\* the tag is in banned_content, embed_image counting as image
BannedUnder(tag, cfg) ==
    LET banned == IF "banned_content" \in DOMAIN cfg
                  THEN Range(cfg["banned_content"])
                  ELSE {"image", "gif", "video", "file"}
    IN  tag \in banned \/ (tag = "embed_image" /\ "image" \in banned)

(* C9: the ban reason tag of a message is the first of its classified tags, in
   classifier order, that is banned (embed_image counting as image), a message
   is enforced only with such a tag, and no pass calls delete, notify, ban or
   the audit send more than once. *)
C9_FirstBannedTagOnce ==
    [][ /\ Dispatches =>
              LET p == passes'[Len(passes')]
              IN  /\ p.content_type # "" =>
                        \E k \in DOMAIN p.detected :
                            /\ p.detected[k] = p.content_type
                            /\ BannedUnder(p.detected[k], auto_ban_config)
                            /\ \A j \in 1..(k - 1) :
                                   ~BannedUnder(p.detected[j], auto_ban_config)
                  /\ p.outcome = "enforcing" => p.content_type # ""
                  /\ p.detected \in {<<>>, ContentDetected(p.msg.attachments, p.msg.embeds)}
        /\ \A i \in DOMAIN passes' :
              \A op \in {"delete", "notify", "ban", "audit"} :
                  TimesCalled(passes'[i], op) <= 1 ]_vars

\* several tags, the first of them not banned: the second is the reason, and
\* the pass has been enforced to the end
C9_Witness ==
    \E i \in DOMAIN passes :
        /\ passes[i].detected = <<"video", "image">>
        /\ passes[i].content_type = "image"
        /\ passes[i].calls = <<"delete", "ban", "stats", "save", "audit">>
        /\ passes[i].pc = "done"

Rank(op) ==
    CASE op = "delete" -> 1
      [] op = "notify" -> 2
      [] op = "ban" -> 3
      [] op = "stats" -> 4
      [] op = "save" -> 5
      [] op = "audit" -> 6

(* C10: the calls of a pass are made in the order delete, notify, ban,
   statistics update, save, audit send; the statistics are updated only after
   the ban has returned successfully, and the audit record is sent only after
   the statistics update and the save. *)
C10_CallOrder ==
    \A i \in DOMAIN passes :
        LET c == passes[i].calls
        IN  /\ \A j, k \in DOMAIN c : j < k => Rank(c[j]) < Rank(c[k])
            /\ "stats" \in Range(c) =>
                  /\ "ban" \in Range(c)
                  /\ passes[i].pc # "ban"
                  /\ passes[i].failed = ""
            /\ "save" \in Range(c) => "stats" \in Range(c)
            /\ "audit" \in Range(c) => {"stats", "save"} \subseteq Range(c)

C10_Witness ==
    \E i \in DOMAIN passes :
        /\ passes[i].calls = <<"delete", "notify", "ban", "stats", "save", "audit">>
        /\ passes[i].pc = "done"

\* this step is a run of load_data (which answers no interaction)
LoadDataRuns ==
    /\ response' = response
    /\ \E s1, s2, s3 \in SaveResults : OnReady(s1, s2, s3)

(* C11: the configuration has all eight fields once load_data has run; in
   particular, when the stored document is missing or corrupt, load_data leaves
   the complete default record in memory, so that no message event or command
   handled afterwards sees an empty or partial configuration. *)
C11_LoadPopulatesConfig ==
    [][ LoadDataRuns =>
          /\ DOMAIN auto_ban_config' = Range(ConfigFields)
          /\ file_config.kind \in {"missing", "corrupt"} =>
                auto_ban_config' = DefaultConfig ]_vars

(* C12: save followed by load gives back the record that was saved, for each
   of the three documents: when a file holds what the save of the in-memory
   record writes, a run of load_data leaves that in-memory record as it is. *)
C12_RoundTrip ==
    [][ LoadDataRuns =>
          /\ file_config = Stored(DumpConfig(auto_ban_config))
                => auto_ban_config' = auto_ban_config
          /\ file_authorized = Stored(DumpAuthorized(authorized_data))
                => authorized_data' = authorized_data
          /\ file_statistics = Stored(DumpStatistics(ban_statistics))
                => ban_statistics' = ban_statistics ]_vars

\* a command changed the stored configuration and saved it, and a later
\* load_data (which forgot the guild entry the command had created) read it
\* back; the statistics and the authorization document went through the same
C12_Witness ==
    /\ auto_ban_config = [TunedConfig EXCEPT !.enabled = FALSE]
    /\ file_config = Stored(DumpConfig(auto_ban_config))
    /\ authorized_data = EmptyDict
    /\ file_authorized = Stored(DumpAuthorized(authorized_data))
    /\ ban_statistics = StatisticsSix
    /\ file_statistics = Stored(DumpStatistics(ban_statistics))

\* this step is an admin command invoked by `actor` (who gets the reply)
CommandBy(actor) ==
    /\ response'.user = actor.id
    /\ \/ \E s \in SaveResults :
             \/ AutoBanEnable(actor, s)
             \/ AutoBanDisable(actor, s)
             \/ SetLogChannel(actor, LogChannelId, s)
             \/ AuthorizeUser(actor, Member1, s)
       \/ BanStats(actor)

\* the allow-lists of the guild; those of an unknown guild are empty
ListedUsers(data) ==
    IF ToString(GuildId) \in DOMAIN data THEN Range(data[ToString(GuildId)].users) ELSE {}

ListedRoles(data) ==
    IF ToString(GuildId) \in DOMAIN data THEN Range(data[ToString(GuildId)].roles) ELSE {}

\* the member is a listed user, holds a listed role or is an administrator
Allowed(actor, data) ==
    \/ ToString(actor.id) \in ListedUsers(data)
    \/ \E r \in actor.roles : ToString(r) \in ListedRoles(data)
    \/ actor.administrator

(* C13: a command is let through exactly when the invoking member's id is in
   the guild's authorized users, or one of the member's roles is in the guild's
   authorized roles, or the member is an administrator; for a guild without an
   entry the answer is the administrator flag.  Every other invocation is
   answered with the no-permission reply. *)
C13_AuthorizedIff ==
    [][ \A actor \in AdminActors :
          CommandBy(actor) =>
            /\ (response'.text # "no_permission") <=> Allowed(actor, authorized_data)
            /\ ToString(GuildId) \notin DOMAIN authorized_data =>
                  ((response'.text # "no_permission") <=> actor.administrator) ]_vars

\* a listed user without a role, not an administrator, has been let through
C13_Witness ==
    /\ response = Reply(Member1, "log_channel_set")
    /\ ListedUsers(authorized_data) = {"1"}
    /\ ListedRoles(authorized_data) = {}
    /\ ~Member1.administrator /\ Member1.roles = {}

(* C14: the guild entry that the first lookup of an unknown guild creates is
   persisted when it is created: after a command invoked in a guild without an
   entry, the authorization document holds the guild with empty user and role
   lists. *)
C14_LazyEntryPersisted ==
    [][ \A actor \in AdminActors :
          (CommandBy(actor) /\ ToString(GuildId) \notin DOMAIN authorized_data) =>
            /\ file_authorized'.kind = "ok"
            /\ ToString(GuildId) \in DOMAIN LoadAuthorized(file_authorized'.doc)
            /\ LoadAuthorized(file_authorized'.doc)[ToString(GuildId)] = EmptyGuildData
      ]_vars

\* the passes whose ban succeeded and whose statistics save succeeded
SavedOk == {i \in DOMAIN passes : passes[i].saved = "ok"}

\* total_bans of the statistics document, when the file can be read
FileTotalAtLeast(n) ==
    file_statistics.kind = "ok" =>
        LoadStatistics(file_statistics.doc).total_bans >= n

(* C15 (as stated): two violating messages processed concurrently lose an
   update of the statistics: when a pass was still in flight while a pass
   dispatched after it made its save, and the bans and the saves of both
   succeeded, total_bans has grown by less than 2 in memory or in the
   statistics document. *)
C15_LostUpdate ==
    \A i, j \in DOMAIN passes :
        (i < j /\ passes[i].pc = "audit" /\ {i, j} \subseteq SavedOk) =>
            \/ ban_statistics.total_bans < 2
            \/ ~FileTotalAtLeast(2)

(* C15 (amended): no interleaving of pipeline passes loses an update of the
   statistics: total_bans, in memory and in the statistics document, is never
   less than the number of passes whose ban and save have succeeded; for two
   such passes it has grown by 2. *)
C15_NoLostUpdate ==
    /\ ban_statistics.total_bans >= Cardinality(SavedOk)
    /\ FileTotalAtLeast(Cardinality(SavedOk))

\* two passes were suspended in guild.ban together (the one dispatched last
\* was counted first), both bans and both saves succeeded, and both are counted
C15_Witness ==
    /\ Len(passes) = 2
    /\ SavedOk = {1, 2}
    /\ passes[1].msg.author.id # passes[2].msg.author.id
    /\ ban_statistics.bans_by_user[1][1] = ToString(passes[2].msg.author.id)
    /\ ban_statistics.total_bans = 2
    /\ file_statistics = Stored(DumpStatistics(ban_statistics))

\* auto_ban_config.get('log_channel') is None or absent
LogChannelUnset ==
    "log_channel" \notin DOMAIN auto_ban_config \/ auto_ban_config["log_channel"] = NoChannel

(* C16: the audit step never affects enforcement: when log_channel is unset
   at the time the ban returns, nothing is sent and the pass returns; the audit
   record is sent at most once per pass; and when the delivery returns or
   fails, the pass returns normally, with the ban made, the statistics and
   their file as they were and no exception left to the outer handlers. *)
C16_AuditNeverAffects ==
    [][ \A i \in DOMAIN passes :
          /\ (BanReturnsOk(i) /\ LogChannelUnset) =>
                /\ "audit" \notin Range(passes'[i].calls)
                /\ passes'[i].pc = "done"
          /\ (passes[i].pc = "audit" /\ passes'[i].pc # "audit") =>
                /\ passes'[i].pc = "done"
                /\ passes'[i].failed = ""
                /\ passes'[i].calls = passes[i].calls
                /\ "ban" \in Range(passes'[i].calls)
                /\ UNCHANGED <<ban_statistics, file_statistics>>
          /\ TimesCalled(passes'[i], "audit") <= 1 ]_vars

\* the delivery of the audit record failed; the pass returned normally and
\* its ban is counted
C16_Witness ==
    \E i \in DOMAIN passes :
        /\ passes[i].audit = "error"
        /\ passes[i].pc = "done"
        /\ passes[i].failed = ""
        /\ passes[i].saved = "ok"
        /\ CountOf(ban_statistics.bans_by_user, ToString(passes[i].msg.author.id)) = 1
        /\ file_statistics = Stored(DumpStatistics(ban_statistics))

\* the position of the user in bans_by_user: the order of first recording
RecordedAt(items, user_id) == CHOOSE i \in DOMAIN items : items[i][1] = user_id

\* pair p is listed before pair q: larger count first, then first recorded first
ListedBefore(items, p, q) ==
    \/ p[2] > q[2]
    \/ p[2] = q[2] /\ RecordedAt(items, p[1]) < RecordedAt(items, q[1])

(* C17: the top-banned-users listing of ban_stats holds at most 5 (user id,
   count) pairs of bans_by_user, all of them when there are no more than 5, in
   descending order of count, users with equal counts in the order in which
   they were first recorded; a user left out comes after every listed one in
   that order. *)
C17_TopBannedSorted ==
    [][ \A actor \in AdminActors :
          (BanStats(actor) /\ Allowed(actor, authorized_data)) =>
            LET top == response'.top_banned
                items == ban_statistics.bans_by_user
            IN  /\ response'.text = "ban_statistics"
                /\ Len(top) = (IF Len(items) < 5 THEN Len(items) ELSE 5)
                /\ Range(top) \subseteq Range(items)
                /\ \A j, k \in DOMAIN top : j < k => ListedBefore(items, top[j], top[k])
                /\ \A q \in Range(items) \ Range(top) :
                       \A j \in DOMAIN top : ListedBefore(items, top[j], q) ]_vars

\* six users are recorded, three of them tied at 1 and two at 2: the listing
\* has five, the ties in recording order, the last recorded of count 1 left out
C17_Witness ==
    /\ ban_statistics = StatisticsSix
    /\ response.text = "ban_statistics"
    /\ response.top_banned =
          << <<"9", 3>>, <<"2", 2>>, <<"7", 2>>, <<"1", 1>>, <<"6", 1>> >>

\* the statistics save of the pass failed
SaveFailed(pass) == pass.saved \in {"not_written", "truncated"}

(* C18: a statistics save that fails is not propagated: the pass goes on to
   the audit step, the in-memory counters keep the increment of its ban and
   stay the values later reads use, and a later save that succeeds writes the
   whole in-memory record. *)
C18_FailedSaveKeepsIncrement ==
    [][ \A i \in DOMAIN passes :
          /\ (BanReturnsOk(i) /\ SaveFailed(passes'[i])) =>
                /\ passes'[i].failed = ""
                /\ ban_statistics'.total_bans = ban_statistics.total_bans + 1
                /\ LogChannelUnset \/ passes'[i].pc \in {"audit", "done"}
          /\ SaveFailed(passes[i]) =>
                /\ ban_statistics'.total_bans >= ban_statistics.total_bans
                /\ CountOf(ban_statistics'.bans_by_user,
                           ToString(passes[i].msg.author.id)) >= 1
          /\ (BanReturnsOk(i) /\ passes'[i].saved = "ok") =>
                file_statistics' = Stored(DumpStatistics(ban_statistics')) ]_vars

\* the outcome of the gate when the checks are made in the order bot author,
\* administrator, exempt role, exempt channel
SkipInSpecOrder(message, cfg) ==
    IF message.author.bot THEN "bot"
    ELSE IF message.author.administrator THEN "administrator"
    ELSE IF /\ "exempt_roles" \in DOMAIN cfg
            /\ \E r \in message.author.roles : ToString(r) \in Range(cfg["exempt_roles"])
         THEN "exempt_role"
    ELSE IF /\ "exempt_channels" \in DOMAIN cfg
            /\ ToString(message.channel) \in Range(cfg["exempt_channels"])
         THEN "exempt_channel"
    ELSE "enforcing"

(* C19: the skip checks are made in the order bot author, administrator,
   exempt role, exempt channel, and the recorded skip reason of a violating
   message is the first that applies in that order: a message of an
   administrator who also holds an exempt role or posts in an exempt channel
   is skipped as privileged. *)
C19_SkipOrder ==
    [][ Dispatches =>
          LET p == passes'[Len(passes')]
          IN  p.content_type # "" =>
                  p.outcome = SkipInSpecOrder(p.msg, auto_ban_config) ]_vars

\* this step is one of the commands that change state, invoked by `actor`
MutatingCommandBy(actor) ==
    /\ response'.user = actor.id
    /\ \E s \in SaveResults :
        \/ AutoBanEnable(actor, s)
        \/ AutoBanDisable(actor, s)
        \/ SetLogChannel(actor, LogChannelId, s)
        \/ AuthorizeUser(actor, Member1, s)

(* C20: auto_ban_enable, auto_ban_disable, set_log_channel and authorize_user
   are gated by is_authorized: when the invoking member is neither a listed
   user, nor the holder of a listed role, nor an administrator, the command
   leaves the in-memory configuration, the guild's authorized users and roles
   and the three files unchanged, and answers with the no-permission reply. *)
C20_UnauthorizedChangesNothing ==
    [][ \A actor \in AdminActors :
          (~Allowed(actor, authorized_data) /\ MutatingCommandBy(actor)) =>
            /\ auto_ban_config' = auto_ban_config
            /\ ListedUsers(authorized_data') = ListedUsers(authorized_data)
            /\ ListedRoles(authorized_data') = ListedRoles(authorized_data)
            /\ UNCHANGED <<file_config, file_authorized, file_statistics,
                           ban_statistics>>
            /\ response' = Reply(actor, "no_permission") ]_vars

\* a member without permission has invoked a command after the stored
\* configuration was loaded: memory and files are as the load left them
C20_Witness ==
    /\ response = Reply(Member1, "no_permission")
    /\ auto_ban_config = TunedConfig
    /\ file_config = Stored(DumpConfig(TunedConfig))
    /\ ToString(GuildId) \in DOMAIN authorized_data
    /\ ListedUsers(authorized_data) = {}
    /\ file_authorized = Stored(DumpAuthorized(EmptyDict))

\* both the enabled check of on_message (line 289) and the gate of
\* auto_ban_user (lines 178-202), read from `cfg`, let the message through to
\* the enforcement steps
EnforcedUnder(message, cfg) ==
    /\ message.author.id # BotUserId
    /\ ConfigEnabled(cfg)
    /\ message.guild # NoGuild
    /\ FirstBanned(ContentDetected(message.attachments, message.embeds),
                   BannedTypes(cfg)) # ""
    /\ GateSkip(message, cfg) = "proceed"

\* the pass was let through the gate and is suspended in delete or in notify
PendingBeforeBan(pass) ==
    /\ pass.outcome = "enforcing"
    /\ pass.pc \in {"delete", "notify"}

(* C21: the enforce-or-skip decision of a pass is taken against one
   configuration snapshot: the pass of a dispatched message is enforced
   exactly when the configuration of the dispatch lets it through both the
   enabled check of on_message and the whole gate of auto_ban_user (so the
   enabled check of the gate never fires), no later step changes the decision,
   and a decided pass resumed from delete or notify without an uncaught
   exception goes on to notify or to guild.ban whatever enabled has become. *)
C21_DecisionOnSnapshot ==
    [][ \A i \in DOMAIN passes' :
          IF i \notin DOMAIN passes
          THEN /\ (passes'[i].outcome = "enforcing")
                     <=> EnforcedUnder(passes'[i].msg, auto_ban_config)
               /\ passes'[i].outcome # "disabled"
          ELSE /\ passes'[i].outcome = passes[i].outcome
               /\ (/\ PendingBeforeBan(passes[i])
                   /\ passes'[i] # passes[i]
                   /\ passes'[i].failed = "") =>
                      /\ passes'[i].pc \in {"notify", "ban"}
                      /\ passes[i].pc = "notify" => passes'[i].pc = "ban"
                      /\ passes'[i].calls = Append(passes[i].calls, passes'[i].pc)
      ]_vars

\* auto_ban_disable has answered and enabled is false while a pass that was
\* let through the gate has deleted the message and is suspended in notify,
\* guild.ban still to come
C21_Witness ==
    /\ response.text = "disabled"
    /\ ~ConfigEnabled(auto_ban_config)
    /\ \E i \in DOMAIN passes :
          /\ PendingBeforeBan(passes[i])
          /\ passes[i].pc = "notify"
          /\ passes[i].calls = <<"delete", "notify">>

\* sum(d.values()) of a counter dictionary
RECURSIVE SumCounts(_)
SumCounts(d) == IF d = <<>> THEN 0 ELSE Head(d)[2] + SumCounts(Tail(d))

\* the passes whose guild.ban has returned without an exception
BansSucceeded == {i \in DOMAIN passes : "stats" \in Range(passes[i].calls)}

(* C22: starting from the default statistics record, in every reachable state
   total_bans equals the sum of the bans_by_type values, equals the sum of the
   bans_by_user values, and equals the number of ban actions that have
   succeeded so far. *)
C22_TotalsAgree ==
    /\ ban_statistics.total_bans = SumCounts(ban_statistics.bans_by_type)
    /\ ban_statistics.total_bans = SumCounts(ban_statistics.bans_by_user)
    /\ ban_statistics.total_bans = Cardinality(BansSucceeded)

====
